---- MODULE Spec2Model ----
(***************************************************************************)
(* Model of rmf_sandbox/src/save_load.rs: the exclusive system `save`,     *)
(* which drains the SaveMap events, re-keys every level's vertices to      *)
(* dense indices, rewrites the lanes, measurements and walls in place,     *)
(* assembles a BuildingMap and writes it to the requested path.            *)
(***************************************************************************)
EXTENDS Integers, Sequences, FiniteSets, TLC

\* ------------------------------------------------------------------ bounds
\* live vertex identifiers are drawn from 0..MaxId
MaxId == 2
\* a level holds at most MaxVerts vertices
MaxVerts == 2
\* a level of a one-level site holds at most MaxModels models
MaxModels == 1
\* at most MaxEvents SaveMap events are pending at once
MaxEvents == 2
\* at most MaxRoots SiteMapRoot entities are ever spawned
MaxRoots == 2

\* target locations of SaveMap events
Paths == {"p1", "p2"}
\* level names, listed in String order (the order of BTreeMap<String, _>)
LevelNames == <<"A", "B">>
\* the level entities a root can have
LevelIds == {1, 2}
\* the three kinds of entity that hold a pair of vertex identifiers
DepKinds == {"lane", "measurement", "wall"}

None == "none"

\* what the file system holds at a path: nothing, a file that was created and
\* not fully written, or a file holding a whole document
NoFile == [exists |-> FALSE, docs |-> <<>>]
Truncated == [exists |-> TRUE, docs |-> <<>>]
Written(map) == [exists |-> TRUE, docs |-> <<map>>]

\* the LevelExtra component of each level entity
LevelExtras == <<"extra1", "extra2">>

VARIABLES
    nroots,      \* number of entities with the SiteMapRoot component
    site,        \* components of the root and of its levels that save only reads
    children,    \* [level -> the level's Children, with each child's components]
    vms,         \* VerticesManagers: [level name -> LevelVerticesManager]
    events,      \* Events<SaveMap>: the pending requests, oldest first
    files,       \* [path -> what the file system holds there]
    status,      \* "running", or "panicked" once a pass has panicked
    outcome,     \* how the pass of save that has just run ended; None when
                 \* another step was taken since
    pre          \* the state that pass started from; the current state when
                 \* another step was taken since

vars == <<nroots, site, children, vms, events, files, status, outcome, pre>>

\* ------------------------------------------------------- scene components
VertexChild(e, id) == [kind |-> "vertex", ent |-> e, id |-> id, a |-> -1, b |-> -1]
DepChild(k, e, a, b) == [kind |-> k, ent |-> e, id |-> -1, a |-> a, b |-> b]
ModelChild(e) == [kind |-> "model", ent |-> e, id |-> -1, a |-> -1, b |-> -1]

\* the entity that is the k-th child of level li
EntityOf(li, k) == li * 100 + k

Range(s) == {s[i] : i \in DOMAIN s}

Max(S) == CHOOSE x \in S : \A y \in S : y <= x

\* position of a level name in String order
NameRank(n) == CHOOSE i \in DOMAIN LevelNames : LevelNames[i] = n

\* ------------------------------------------------- LevelVerticesManager
\* spawner::LevelVerticesManager is not part of save_load.rs; it is modelled
\* from its uses at lines 87, 97 and 102 and from the re-keying policy:
\* a default manager is empty and `add` hands out 0, 1, 2, ... in call order.
LvmDefault == [id_to_entity |-> <<>>, next_id |-> 0]

LvmAdd(m, e) ==
    [vm |-> [id_to_entity |-> (m.next_id :> e) @@ m.id_to_entity,
             next_id |-> m.next_id + 1],
     id |-> m.next_id]

LvmHas(m, id) == id \in DOMAIN m.id_to_entity

LvmGet(m, id) == m.id_to_entity[id]

\* ------------------------------------------------------ the vertex pass
\* a faulty variant: the old identifier is kept as the new one
ReidInsertOld(vertices_reid, id, new_id) == (id :> id) @@ vertices_reid

\* a faulty variant: the new identifiers are entered counting from 1
ReidInsertOneBased(vertices_reid, id, new_id) == (id :> new_id + 1) @@ vertices_reid

\* vertices_reid.insert(id, new_id): a HashMap insert replaces an old entry
ReidInsert(vertices_reid, id, new_id) == (id :> new_id) @@ vertices_reid

\* a faulty variant: the vertex is put in front of the list
PushVertexFront(vertices, c) == <<c.ent>> \o vertices

\* vertices.push(vertex.clone()): the entity stands for its Vertex value
PushVertex(vertices, c) == Append(vertices, c.ent)

\* the map the first level of the root leaves behind: its vertices' Ids in
\* child order, numbered from 0
StaleReid ==
    IF site.root_children = <<>> THEN <<>>
    ELSE LET cs == children[site.root_children[1]]
             ks == {k \in DOMAIN cs : cs[k].kind = "vertex"}
         IN  [id \in {cs[k].id : k \in ks} |->
                 Cardinality({j \in ks :
                     j < (CHOOSE k \in ks : cs[k].id = id)})]

\* a faulty variant: vertices_reid is declared outside the loop over the
\* levels, so a level starts with the entries of the level before it
CollectStartShared ==
    [new_vm |-> LvmDefault, vertices_reid |-> StaleReid, vertices |-> <<>>,
     panic |-> None]

\* let mut new_vm = LevelVerticesManager::default(); let mut vertices_reid =
\* HashMap::new(); let mut vertices = Vec::new(): made anew for every level
CollectStart ==
    [new_vm |-> LvmDefault, vertices_reid |-> <<>>, vertices |-> <<>>, panic |-> None]

\* the first loop over a level's children: every child that is a vertex is
\* looked up in the level's manager by its Id, added to the new manager,
\* entered in vertices_reid and pushed on the vertex list
RECURSIVE CollectVertices(_, _, _, _)
CollectVertices(cs, k, vm, acc) ==
    IF acc.panic # None \/ k > Len(cs) THEN acc
    ELSE IF cs[k].kind # "vertex" THEN CollectVertices(cs, k + 1, vm, acc)
    ELSE LET id == cs[k].id IN
         IF ~LvmHas(vm, id) THEN [acc EXCEPT !.panic = "panic_vertex"]
         ELSE LET r == LvmAdd(acc.new_vm, LvmGet(vm, id)) IN
              CollectVertices(cs, k + 1, vm,
                  [new_vm |-> r.vm,
                   vertices_reid |-> ReidInsert(acc.vertices_reid, id, r.id),
                   vertices |-> PushVertex(acc.vertices, cs[k]),
                   panic |-> None])

\* --------------------------------------------------- the rewriting pass
\* a faulty variant: the two ends are exchanged
RewritePairSwapped(c, vertices_reid) ==
    IF c.a \notin DOMAIN vertices_reid THEN [c |-> c, panic |-> "panic_ref"]
    ELSE IF c.b \notin DOMAIN vertices_reid THEN [c |-> c, panic |-> "panic_ref"]
    ELSE [c |-> [c EXCEPT !.a = vertices_reid[c.b], !.b = vertices_reid[c.a]],
          panic |-> None]

\* a faulty variant: an identifier that is not in the map becomes 0 (unwrap_or_default)
RewritePairDefault(c, vertices_reid) ==
    [c |-> [c EXCEPT
              !.a = IF c.a \in DOMAIN vertices_reid THEN vertices_reid[c.a] ELSE 0,
              !.b = IF c.b \in DOMAIN vertices_reid THEN vertices_reid[c.b] ELSE 0],
     panic |-> None]

\* x.0 = vertices_reid[&x.0]; x.1 = vertices_reid[&x.1]: indexing a HashMap
\* with an absent key panics, after the first assignment if that one went well
RewritePair(c, vertices_reid) ==
    IF c.a \notin DOMAIN vertices_reid THEN [c |-> c, panic |-> "panic_ref"]
    ELSE LET c1 == [c EXCEPT !.a = vertices_reid[c.a]] IN
         IF c.b \notin DOMAIN vertices_reid THEN [c |-> c1, panic |-> "panic_ref"]
         ELSE [c |-> [c1 EXCEPT !.b = vertices_reid[c.b]], panic |-> None]

\* x.clone() of a rewritten lane, measurement or wall
DepValue(c) == [ent |-> c.ent, a |-> c.a, b |-> c.b]

RewriteStart(cs) ==
    [children |-> cs, lanes |-> <<>>, measurements |-> <<>>, walls |-> <<>>,
     models |-> <<>>, panic |-> None]

\* the entries of vertices_reid made by the vertices before position k
ReidBefore(cs, k, vertices_reid) ==
    [id \in {i \in DOMAIN vertices_reid :
                \E j \in 1..(k - 1) : cs[j].kind = "vertex" /\ cs[j].id = i}
        |-> vertices_reid[id]]

\* a faulty variant: one loop, a pair is rewritten with the map as it stands
\* when the loop reaches the dependent
RECURSIVE RewriteRefsOnePass(_, _, _, _)
RewriteRefsOnePass(cs, k, vertices_reid, acc) ==
    IF acc.panic # None \/ k > Len(cs) THEN acc
    ELSE LET c == cs[k] IN
         IF c.kind \in DepKinds THEN
             LET r == RewritePair(c, ReidBefore(cs, k, vertices_reid))
                 live == [acc.children EXCEPT ![k] = r.c]
             IN  IF r.panic # None
                 THEN [acc EXCEPT !.children = live, !.panic = r.panic]
                 ELSE RewriteRefsOnePass(cs, k + 1, vertices_reid,
                        [acc EXCEPT
                           !.children = live,
                           !.lanes = IF c.kind = "lane"
                                     THEN Append(@, DepValue(r.c)) ELSE @,
                           !.measurements = IF c.kind = "measurement"
                                     THEN Append(@, DepValue(r.c)) ELSE @,
                           !.walls = IF c.kind = "wall"
                                     THEN Append(@, DepValue(r.c)) ELSE @])
         ELSE IF c.kind = "model" THEN
             RewriteRefsOnePass(cs, k + 1, vertices_reid,
                 [acc EXCEPT !.models = Append(@, c.ent)])
         ELSE RewriteRefsOnePass(cs, k + 1, vertices_reid, acc)

\* a faulty variant: the loop also writes the new identifier into the Id
\* component of every vertex
RECURSIVE RewriteRefsRekeyIds(_, _, _, _)
RewriteRefsRekeyIds(cs, k, vertices_reid, acc) ==
    IF acc.panic # None \/ k > Len(cs) THEN acc
    ELSE LET c == cs[k] IN
         IF c.kind \in DepKinds THEN
             LET r == RewritePair(c, vertices_reid)
                 live == [acc.children EXCEPT ![k] = r.c]
             IN  IF r.panic # None
                 THEN [acc EXCEPT !.children = live, !.panic = r.panic]
                 ELSE RewriteRefsRekeyIds(cs, k + 1, vertices_reid,
                        [acc EXCEPT
                           !.children = live,
                           !.lanes = IF c.kind = "lane"
                                     THEN Append(@, DepValue(r.c)) ELSE @,
                           !.measurements = IF c.kind = "measurement"
                                     THEN Append(@, DepValue(r.c)) ELSE @,
                           !.walls = IF c.kind = "wall"
                                     THEN Append(@, DepValue(r.c)) ELSE @])
         ELSE IF c.kind = "model" THEN
             RewriteRefsRekeyIds(cs, k + 1, vertices_reid,
                 [acc EXCEPT !.models = Append(@, c.ent)])
         ELSE RewriteRefsRekeyIds(cs, k + 1, vertices_reid,
                 [acc EXCEPT !.children[k].id = vertices_reid[c.id]])

\* the second loop over a level's children
RECURSIVE RewriteRefs(_, _, _, _)
RewriteRefs(cs, k, vertices_reid, acc) ==
    IF acc.panic # None \/ k > Len(cs) THEN acc
    ELSE LET c == cs[k] IN
         IF c.kind \in DepKinds THEN
             LET r == RewritePair(c, vertices_reid)
                 live == [acc.children EXCEPT ![k] = r.c]
             IN  IF r.panic # None
                 THEN [acc EXCEPT !.children = live, !.panic = r.panic]
                 ELSE RewriteRefs(cs, k + 1, vertices_reid,
                        [acc EXCEPT
                           !.children = live,
                           !.lanes = IF c.kind = "lane"
                                     THEN Append(@, DepValue(r.c)) ELSE @,
                           !.measurements = IF c.kind = "measurement"
                                     THEN Append(@, DepValue(r.c)) ELSE @,
                           !.walls = IF c.kind = "wall"
                                     THEN Append(@, DepValue(r.c)) ELSE @])
         ELSE IF c.kind = "model" THEN
             RewriteRefs(cs, k + 1, vertices_reid,
                 [acc EXCEPT !.models = Append(@, c.ent)])
         ELSE RewriteRefs(cs, k + 1, vertices_reid, acc)

\* ------------------------------------------------------------- levels
\* a faulty variant: the levels are kept in a Vec, in the order they are visited
VecPush(levels, name, level) == Append(levels, [name |-> name, level |-> level])

\* BTreeMap<String, Level>, kept as its entries in key order
RECURSIVE BTreeInsert(_, _, _)
BTreeInsert(levels, name, level) ==
    IF levels = <<>> THEN <<[name |-> name, level |-> level]>>
    ELSE IF Head(levels).name = name
         THEN <<[name |-> name, level |-> level]>> \o Tail(levels)
    ELSE IF NameRank(name) < NameRank(Head(levels).name)
         THEN <<[name |-> name, level |-> level]>> \o levels
    ELSE <<Head(levels)>> \o BTreeInsert(Tail(levels), name, level)

\* a faulty variant: the walls and the measurements are exchanged
MakeLevelSwapped(cv, rw, extra) ==
    [vertices |-> cv.vertices, lanes |-> rw.lanes,
     measurements |-> rw.walls, walls |-> rw.measurements,
     models |-> rw.models, extra |-> extra]

\* Level { vertices, lanes, measurements, walls, models, drawing, elevation, .. }
MakeLevel(cv, rw, extra) ==
    [vertices |-> cv.vertices, lanes |-> rw.lanes,
     measurements |-> rw.measurements, walls |-> rw.walls,
     models |-> rw.models, extra |-> extra]

\* the body of the loop over the root's children, for the level entity li;
\* st holds the levels assembled so far and the live state as changed so far
SaveLevel(li, st) ==
    IF site.extra[li] = None THEN [st EXCEPT !.panic = "panic_component"]
    ELSE IF site.name[li] = None THEN [st EXCEPT !.panic = "panic_component"]
    ELSE LET name == site.name[li] IN
    IF name \notin DOMAIN st.vms THEN [st EXCEPT !.panic = "panic_component"]
    ELSE IF ~site.has_children[li] THEN [st EXCEPT !.panic = "panic_component"]
    ELSE LET cv == CollectVertices(st.children[li], 1, st.vms[name], CollectStart) IN
    IF cv.panic # None THEN [st EXCEPT !.panic = cv.panic]
    ELSE LET vms2 == [st.vms EXCEPT ![name] = cv.new_vm]
             rw == RewriteRefs(st.children[li], 1, cv.vertices_reid,
                               RewriteStart(st.children[li]))
             live == [st.children EXCEPT ![li] = rw.children]
         IN  IF rw.panic # None
             THEN [st EXCEPT !.vms = vms2, !.children = live, !.panic = rw.panic]
             ELSE [levels |-> BTreeInsert(st.levels, name,
                                          MakeLevel(cv, rw, site.extra[li])),
                   vms |-> vms2, children |-> live, panic |-> None]

RECURSIVE SaveLevels(_, _)
SaveLevels(ls, st) ==
    IF st.panic # None \/ ls = <<>> THEN st
    ELSE SaveLevels(Tail(ls), SaveLevel(Head(ls), st))

FormatVersion == 2

\* BuildingMap { name, version: Some(2), crowd_sim, levels }
MakeMap(levels) ==
    [name |-> site.root_name, version |-> FormatVersion,
     crowd_sim |-> site.crowd_sim, levels |-> levels]

\* a faulty variant: a root without CrowdSim is saved with a default one
AssembleLenient ==
    LET st == SaveLevels(site.root_children,
                 [levels |-> <<>>, vms |-> vms, children |-> children,
                  panic |-> None])
    IN  IF st.panic = None /\ site.root_name = None
        THEN [st EXCEPT !.panic = "panic_component"]
        ELSE st

\* everything save does between finding the root and opening the file
Assemble ==
    IF site.crowd_sim = None
    THEN [levels |-> <<>>, vms |-> vms, children |-> children,
          panic |-> "panic_component"]
    ELSE LET st == SaveLevels(site.root_children,
                     [levels |-> <<>>, vms |-> vms, children |-> children,
                      panic |-> None])
         IN  IF st.panic = None /\ site.root_name = None
             THEN [st EXCEPT !.panic = "panic_component"]
             ELSE st

\* ------------------------------------------------------ scenes to save
\* sequences without repetition over S, of length at most n
InjSeqs(S, n) ==
    UNION {{q \in [1..k -> S] : \A i, j \in 1..k : i # j => q[i] # q[j]} : k \in 0..n}

Ids == 0..MaxId

DepInputs == [kind : DepKinds, a : Ids, b : Ids]

\* a level as spawned and edited: its vertices' identifiers in child order, its
\* dependents (before or after the vertices in child order) and its models
LevelInput(verts, deps, depsFirst, models) ==
    [verts |-> verts, deps |-> deps, depsFirst |-> depsFirst, models |-> models]

\* the levels of a one-level site: any identifiers, any one dependent
RichLevels ==
    {LevelInput(v, d, f, m) :
        v \in InjSeqs(Ids, MaxVerts),
        d \in {<<>>} \cup {<<x>> : x \in DepInputs},
        f \in BOOLEAN, m \in 0..MaxModels}

\* the levels of a two-level site
PlainLevels ==
    {LevelInput(v, d, FALSE, 0) :
        v \in InjSeqs(0..1, MaxVerts),
        d \in {<<>>} \cup {<<[kind |-> "lane", a |-> a, b |-> b]>> : a, b \in 0..1}}

\* the levels of section 8 of the spec: identifiers {0,2,5} and {3,7}
ExampleLevels ==
    {LevelInput(<<0, 2, 5>>, <<[kind |-> "lane", a |-> 5, b |-> 0]>>, FALSE, 0),
     LevelInput(<<0, 2, 5>>, <<[kind |-> "wall", a |-> 2, b |-> 5]>>, FALSE, 0),
     LevelInput(<<3, 7>>, <<[kind |-> "lane", a |-> 7, b |-> 3]>>, FALSE, 0)}

\* levels with several dependents of every kind
MixedLevels ==
    {LevelInput(<<2, 0>>,
                <<[kind |-> "lane", a |-> 0, b |-> 2],
                  [kind |-> "measurement", a |-> 2, b |-> 2],
                  [kind |-> "wall", a |-> 2, b |-> 0],
                  [kind |-> "lane", a |-> 2, b |-> 0]>>, f, 2) : f \in BOOLEAN}

\* the Children of level li built from an input
ChildrenOf(li, inp) ==
    LET nv == Len(inp.verts)
        nd == Len(inp.deps)
        vAt == IF inp.depsFirst THEN nd ELSE 0
        dAt == IF inp.depsFirst THEN 0 ELSE nv
    IN  [k \in 1..(nv + nd + inp.models) |->
            IF k > vAt /\ k <= vAt + nv
            THEN VertexChild(EntityOf(li, k), inp.verts[k - vAt])
            ELSE IF k > dAt /\ k <= dAt + nd
            THEN DepChild(inp.deps[k - dAt].kind, EntityOf(li, k),
                          inp.deps[k - dAt].a, inp.deps[k - dAt].b)
            ELSE ModelChild(EntityOf(li, k))]

VertexIds(cs) == {cs[k].id : k \in {i \in DOMAIN cs : cs[i].kind = "vertex"}}

\* the entity of the vertex of cs whose Id is id
VertexWithId(cs, id) ==
    LET k == CHOOSE i \in DOMAIN cs : cs[i].kind = "vertex" /\ cs[i].id = id
    IN  cs[k].ent

NoLevel == LevelInput(<<>>, <<>>, FALSE, 0)

Missing == {"crowd_sim", "root_name", "extra", "level_name", "children"}

\* a spawned site: the order of the root's children, each level's name and
\* components, and the root's components
SiteInput(order, names, inputs, missing) ==
    [order |-> order, names |-> names, inputs |-> inputs, missing |-> missing]

\* the levels of the sites that are saved under every schedule of requests
SmallLevels ==
    {LevelInput(v, d, FALSE, 0) :
        v \in {<<0>>, <<1>>, <<1, 0>>},
        d \in {<<>>, <<[kind |-> "wall", a |-> 1, b |-> 0]>>}}
    \cup {LevelInput(<<>>, <<>>, FALSE, 1)}

OneLevel(L) == {SiteInput(<<1>>, <<"A", "B">>, <<l, NoLevel>>, None) : l \in L}

\* two levels, in either order under the root, with the names N[1] and N[2]
TwoLevels(L, N) ==
    {SiteInput(o, n, <<l1, l2>>, None) :
        o \in {<<1, 2>>, <<2, 1>>}, n \in N, l1 \in L, l2 \in L}

\* sites that lack one component save unwraps: of the root, or of the root's
\* last child; the level that lacks its Children never had a child
MissingLevel(x) ==
    IF x = "children" THEN NoLevel
    ELSE LevelInput(<<1>>, <<[kind |-> "lane", a |-> 1, b |-> 1]>>, FALSE, 0)

MissingOne ==
    {SiteInput(o, <<"A", "B">>, <<MissingLevel(x), MissingLevel(x)>>, x) :
        o \in {<<1, 2>>, <<2, 1>>}, x \in Missing}

\* the sites spawned in Spec; among them sites with two levels of one name,
\* which the spawner does not build from a BuildingMap (its levels are keyed
\* by name) and which save is nevertheless expected to refuse
SiteInputs ==
    OneLevel(ExampleLevels)
    \cup TwoLevels(SmallLevels, {<<"A", "B">>, <<"A", "A">>})
    \cup MissingOne

\* the sites saved in SpecScenes: level names are distinct
SceneInputs ==
    OneLevel(RichLevels \cup ExampleLevels \cup MixedLevels)
    \cup TwoLevels(PlainLevels, {<<"A", "B">>})
    \cup MissingOne

\* the levels of an input that are children of the root
Spawned(inp) == Range(inp.order)

\* vertex identifiers are handed out by the LevelVerticesManager of the level's
\* name, so two levels of one name never hold the same identifier
Spawnable(inp) ==
    \A l1, l2 \in Spawned(inp) :
        (l1 # l2 /\ inp.names[l1] = inp.names[l2]) =>
            Range(inp.inputs[l1].verts) \cap Range(inp.inputs[l2].verts) = {}

SiteOf(inp) ==
    [root_children |-> inp.order,
     crowd_sim |-> IF inp.missing = "crowd_sim" THEN None ELSE "crowd_sim",
     root_name |-> IF inp.missing = "root_name" THEN None ELSE "site",
     \* the missing level component is missing on the root's last child
     name |-> [li \in LevelIds |->
                 IF inp.missing = "level_name" /\ li = inp.order[Len(inp.order)]
                 THEN None ELSE inp.names[li]],
     extra |-> [li \in LevelIds |->
                 IF inp.missing = "extra" /\ li = inp.order[Len(inp.order)]
                 THEN None ELSE LevelExtras[li]],
     \* a level whose children were all deleted keeps an empty Children
     has_children |-> [li \in LevelIds |->
                 ~(inp.missing = "children" /\ li = inp.order[Len(inp.order)])]]

SiteChildren(inp) ==
    [li \in LevelIds |->
        IF li \in Spawned(inp) THEN ChildrenOf(li, inp.inputs[li]) ELSE <<>>]

\* VerticesManagers after spawning: one manager per level name, which maps each
\* vertex's Id to its entity
SiteVms(inp) ==
    LET cs == SiteChildren(inp) IN
    [n \in {inp.names[li] : li \in Spawned(inp)} |->
        LET ls == {li \in Spawned(inp) : inp.names[li] = n}
            ids == UNION {VertexIds(cs[li]) : li \in ls}
        IN  [id_to_entity |->
                [id \in ids |->
                    VertexWithId(cs[CHOOSE li \in ls : id \in VertexIds(cs[li])], id)],
             next_id |-> IF ids = {} THEN 0 ELSE Max(ids) + 1]]

NoSite ==
    [root_children |-> <<>>, crowd_sim |-> None, root_name |-> None,
     name |-> [li \in LevelIds |-> None], extra |-> [li \in LevelIds |-> None],
     has_children |-> [li \in LevelIds |-> FALSE]]

\* ------------------------------------------------------------ the state
Snapshot ==
    [children |-> children, vms |-> vms, events |-> events, files |-> files,
     nroots |-> nroots, site |-> site]

Init ==
    /\ nroots = 0
    /\ site = NoSite
    /\ children = [li \in LevelIds |-> <<>>]
    /\ vms = <<>>
    /\ events = <<>>
    /\ files = [p \in Paths |-> NoFile]
    /\ status = "running"
    /\ outcome = None
    /\ pre = [children |-> [li \in LevelIds |-> <<>>], vms |-> <<>>,
              events |-> <<>>, files |-> [p \in Paths |-> NoFile], nroots |-> 0,
              site |-> NoSite]

\* the spawner builds a site (and the editor edits it); a later spawn adds a
\* root, whose subtree save never reaches
SpawnSite ==
    /\ status = "running"
    /\ nroots < MaxRoots
    /\ nroots' = nroots + 1
    /\ IF nroots = 0
       THEN \E inp \in SiteInputs :
               /\ Spawnable(inp)
               /\ site' = SiteOf(inp)
               /\ children' = SiteChildren(inp)
               /\ vms' = SiteVms(inp)
       ELSE UNCHANGED <<site, children, vms>>
    /\ UNCHANGED <<events, files, status>>
    /\ outcome' = None
    /\ pre' = Snapshot'

\* Events<SaveMap>::send(SaveMap(path)), for a path of P
SendSaveTo(P) ==
    /\ status = "running"
    /\ Len(events) < MaxEvents
    /\ \E p \in P : events' = Append(events, p)
    /\ UNCHANGED <<nroots, site, children, vms, files, status>>
    /\ outcome' = None
    /\ pre' = Snapshot' 

SendSave == SendSaveTo(Paths)

\* a faulty variant: the oldest request is served
FirstEvent(evs) == evs[1]

\* save_events.drain().last()
LastEvent(evs) == evs[Len(evs)]

\* a faulty variant: with several roots the first is taken
GetFirst(n) == n >= 1

\* root_entity.get_single() is Ok
GetSingle(n) == n = 1

\* what File::create and serde_yaml::to_writer can do
IoOutcomes == {"ok", "create_fails", "write_fails"}

\* File::create(path).unwrap(); serde_yaml::to_writer(f, &map).unwrap()
WriteFile(fs, path, map, io) ==
    IF io = "create_fails" THEN fs
    ELSE IF io = "write_fails" THEN [fs EXCEPT ![path] = Truncated]
    ELSE [fs EXCEPT ![path] = Written(map)]

\* a faulty variant: the root is looked up before the queue is drained, so a
\* pass that finds no single root returns with the requests still queued
saveKeepsRequest ==
    /\ status = "running"
    /\ pre' = Snapshot
    /\ IF events = <<>>
       THEN /\ outcome' = "no_request"
            /\ UNCHANGED <<nroots, site, children, vms, files, status, events>>
       ELSE IF ~GetSingle(nroots)
       THEN /\ outcome' = "no_single_root"
            /\ UNCHANGED <<nroots, site, children, vms, files, status, events>>
       ELSE LET st == Assemble
                path == LastEvent(events)
            IN  /\ events' = <<>>
                /\ children' = st.children
                /\ vms' = st.vms
                /\ UNCHANGED <<nroots, site>>
                /\ IF st.panic # None
                   THEN /\ outcome' = st.panic
                        /\ status' = "panicked"
                        /\ UNCHANGED files
                   ELSE \E io \in IoOutcomes :
                        /\ files' = WriteFile(files, path, MakeMap(st.levels), io)
                        /\ outcome' = CASE io = "ok" -> "saved"
                                        [] io = "create_fails" -> "panic_create"
                                        [] io = "write_fails" -> "panic_write"
                        /\ status' = IF io = "ok" THEN "running" ELSE "panicked"

\* one run of the exclusive system
save ==
    /\ status = "running"
    /\ pre' = Snapshot
    /\ events' = <<>>
    /\ IF events = <<>>
       THEN /\ outcome' = "no_request"
            /\ UNCHANGED <<nroots, site, children, vms, files, status>>
       ELSE IF ~GetSingle(nroots)
       THEN /\ outcome' = "no_single_root"
            /\ UNCHANGED <<nroots, site, children, vms, files, status>>
       ELSE LET st == Assemble
                path == LastEvent(events)
            IN  /\ children' = st.children
                /\ vms' = st.vms
                /\ UNCHANGED <<nroots, site>>
                /\ IF st.panic # None
                   THEN /\ outcome' = st.panic
                        /\ status' = "panicked"
                        /\ UNCHANGED files
                   ELSE \E io \in IoOutcomes :
                        /\ files' = WriteFile(files, path, MakeMap(st.levels), io)
                        /\ outcome' = CASE io = "ok" -> "saved"
                                        [] io = "create_fails" -> "panic_create"
                                        [] io = "write_fails" -> "panic_write"
                        /\ status' = IF io = "ok" THEN "running" ELSE "panicked"

Next == SpawnSite \/ SendSave \/ save

Spec == Init /\ [][Next]_vars

\* The same system, started from a spawned and edited site, with every request
\* for the one path ScenePath: the scenes vary here, the schedule in Spec.
ScenePath == "p1"

InitScenes ==
    /\ nroots = 1
    /\ \E inp \in SceneInputs :
          /\ Spawnable(inp)
          /\ site = SiteOf(inp)
          /\ children = SiteChildren(inp)
          /\ vms = SiteVms(inp)
          /\ pre = [children |-> SiteChildren(inp), vms |-> SiteVms(inp),
                    events |-> <<>>, files |-> [p \in Paths |-> NoFile],
                    nroots |-> 1, site |-> SiteOf(inp)]
    /\ events = <<>>
    /\ files = [p \in Paths |-> NoFile]
    /\ status = "running"
    /\ outcome = None

SendSaveScene == SendSaveTo({ScenePath})

NextScenes == SendSaveScene \/ save

SpecScenes == InitScenes /\ [][NextScenes]_vars

\* ------------------------------------------------------------- claims
\* the last step was a pass of save that wrote a whole document
AfterSave == outcome = "saved"

\* the last step was a pass of save that found a request and one root
AfterAttempt == outcome # None /\ pre.events # <<>> /\ pre.nroots = 1

\* the document that pass wrote
SavedMap == files[pre.events[Len(pre.events)]].docs[1]

RootLevels == Range(site.root_children)

LevelOf(map, n) ==
    map.levels[CHOOSE i \in DOMAIN map.levels : map.levels[i].name = n].level

\* the level of the written document made from the level entity li
SavedLevel(li) == LevelOf(SavedMap, site.name[li])

DepsOf(lv) == lv.lanes \o lv.measurements \o lv.walls

DepChildren(cs) == {k \in DOMAIN cs : cs[k].kind \in DepKinds}

IsVertex(c) == c.kind = "vertex"

\* the vertices of a level in child order
VertexSeq(cs) == SelectSeq(cs, IsVertex)

\* C1: after a successful save every lane, wall and measurement is in its
\* level of the document, and the two positions it holds there are, in this
\* order, those of the vertices that carried its two identifiers before.
RefsPreserved ==
    AfterSave =>
        \A li \in RootLevels :
            LET cs == pre.children[li]
                lv == SavedLevel(li)
                ds == DepsOf(lv)
            IN  \A k \in DepChildren(cs) :
                    /\ \E i \in DOMAIN ds : ds[i].ent = cs[k].ent
                    /\ \A i \in DOMAIN ds : ds[i].ent = cs[k].ent =>
                          /\ ds[i].a + 1 \in DOMAIN lv.vertices
                          /\ ds[i].b + 1 \in DOMAIN lv.vertices
                          /\ lv.vertices[ds[i].a + 1] = VertexWithId(cs, cs[k].a)
                          /\ lv.vertices[ds[i].b + 1] = VertexWithId(cs, cs[k].b)

\* a save has re-keyed a dependent that joins two vertices to another pair
RefsPreservedWitness ==
    /\ AfterSave
    /\ \E li \in RootLevels :
          \E k \in DepChildren(pre.children[li]) :
             /\ pre.children[li][k].a # pre.children[li][k].b
             /\ \E i \in DOMAIN DepsOf(SavedLevel(li)) :
                   /\ DepsOf(SavedLevel(li))[i].ent = pre.children[li][k].ent
                   /\ DepsOf(SavedLevel(li))[i].a # pre.children[li][k].a
                   /\ DepsOf(SavedLevel(li))[i].b # pre.children[li][k].b

\* C2: after a successful save every index of every lane, wall and
\* measurement of a level of the document lies in 0..n-1, n the length of that
\* level's vertex list.
RefsInRange ==
    AfterSave =>
        \A e \in Range(SavedMap.levels) :
            \A d \in Range(DepsOf(e.level)) :
                /\ d.a \in 0..(Len(e.level.vertices) - 1)
                /\ d.b \in 0..(Len(e.level.vertices) - 1)

\* a save of a level a dependent of which held an identifier beyond 0..n-1
RefsInRangeWitness ==
    /\ AfterSave
    /\ \E li \in RootLevels :
          \E k \in DepChildren(pre.children[li]) :
             /\ pre.children[li][k].a >= Len(SavedLevel(li).vertices)
             /\ DepsOf(SavedLevel(li)) # <<>>

\* C3: after a successful save the vertex list of each level of the document
\* is the level's vertices in child order, referenced or not, the level's
\* manager holds exactly the identifiers 0..n-1, and every reference to the
\* old identifier of the k-th vertex (from 0) has become k.
DenseInOrder ==
    AfterSave =>
        \A li \in RootLevels :
            LET cs == pre.children[li]
                vs == VertexSeq(cs)
                lv == SavedLevel(li)
                ds == DepsOf(lv)
            IN  /\ Len(lv.vertices) = Len(vs)
                /\ \A k \in DOMAIN vs : lv.vertices[k] = vs[k].ent
                /\ DOMAIN vms[site.name[li]].id_to_entity = 0..(Len(vs) - 1)
                /\ \A k \in DOMAIN vs : \A d \in DepChildren(cs) :
                      \A i \in DOMAIN ds : ds[i].ent = cs[d].ent =>
                          /\ cs[d].a = vs[k].id => ds[i].a = k - 1
                          /\ cs[d].b = vs[k].id => ds[i].b = k - 1

\* the example: identifiers 3, 7 in child order and a lane (7, 3) are saved as
\* a list of two vertices and the lane (1, 0)
DenseInOrderWitness ==
    /\ AfterSave
    /\ \E li \in RootLevels :
          LET cs == pre.children[li] IN
          /\ Len(cs) = 3
          /\ cs[1].kind = "vertex" /\ cs[1].id = 3
          /\ cs[2].kind = "vertex" /\ cs[2].id = 7
          /\ cs[3].kind = "lane" /\ cs[3].a = 7 /\ cs[3].b = 3
          /\ SavedLevel(li).vertices = <<cs[1].ent, cs[2].ent>>
          /\ Len(SavedLevel(li).lanes) = 1
          /\ SavedLevel(li).lanes[1].a = 1 /\ SavedLevel(li).lanes[1].b = 0

\* the other example: identifiers 0, 2, 5 in child order; a reference to 5 is
\* saved as 2
SparseExampleWitness ==
    /\ AfterSave
    /\ \E li \in RootLevels :
          LET cs == pre.children[li] IN
          /\ Len(cs) = 4
          /\ \A k \in 1..3 : cs[k].kind = "vertex"
          /\ <<cs[1].id, cs[2].id, cs[3].id>> = <<0, 2, 5>>
          /\ cs[4].kind = "lane" /\ cs[4].a = 5
          /\ Len(SavedLevel(li).vertices) = 3
          /\ SavedLevel(li).lanes[1].a = 2

\* C4: a save that follows a successful save, the scene not edited in between,
\* does not panic while it assembles the document, and when it succeeds it
\* writes the document the earlier save wrote.
SecondSaveSame ==
    (AfterAttempt /\ \E p \in Paths : pre.files[p].docs # <<>>) =>
        /\ outcome \in {"saved", "panic_create", "panic_write"}
        /\ outcome = "saved" =>
              \A p \in Paths :
                  pre.files[p].docs # <<>> => pre.files[p].docs[1] = SavedMap

\* a dependent of the level holds an identifier no vertex of the level carries
Dangling(cs) ==
    \E k \in DepChildren(cs) :
        cs[k].a \notin VertexIds(cs) \/ cs[k].b \notin VertexIds(cs)

\* C5: a save of a site one level of which holds a dangling reference panics
\* before the file is opened: no file is written, and the pass does not end
\* with a document.
DanglingAborts ==
    (AfterAttempt /\ \E li \in RootLevels : Dangling(pre.children[li])) =>
        /\ outcome \in {"panic_ref", "panic_vertex", "panic_component"}
        /\ status = "panicked"
        /\ files = pre.files

\* a pass has panicked on a dangling reference
DanglingAbortsWitness ==
    /\ AfterAttempt
    /\ \E li \in RootLevels : Dangling(pre.children[li])
    /\ outcome = "panic_ref"
    /\ files = pre.files

DuplicateNames ==
    \E i, j \in DOMAIN site.root_children :
        i # j /\ site.name[site.root_children[i]] = site.name[site.root_children[j]]

\* C6: a save of a site two levels of which carry the same name panics before
\* the file is opened: no file is written.
DuplicateNamesAbort ==
    (AfterAttempt /\ DuplicateNames) =>
        /\ outcome \in {"panic_ref", "panic_vertex", "panic_component"}
        /\ files = pre.files

\* C7: a pass that finds a request and zero roots, or several, writes no
\* file, replaces no level's manager and rewrites no reference pair.
NoSingleRootAborts ==
    (outcome # None /\ pre.events # <<>> /\ pre.nroots # 1) =>
        /\ outcome = "no_single_root"
        /\ files = pre.files
        /\ vms = pre.vms
        /\ children = pre.children
        /\ status = "running"

\* a pass has found a request and two roots, over a site it would have re-keyed
NoSingleRootWitness ==
    /\ outcome = "no_single_root"
    /\ pre.nroots = 2
    /\ pre.events # <<>>
    /\ \E li \in RootLevels : \E k \in DOMAIN children[li] :
          children[li][k].kind = "vertex" /\ children[li][k].id # k - 1

\* a pass has found a request and no root
NoRootWitness ==
    outcome = "no_single_root" /\ pre.nroots = 0 /\ pre.events # <<>>

\* C8: a pass that finds several requests writes at most to the path of the
\* last one, leaves every other path as it was, and leaves no request pending.
CoalesceToLast ==
    (outcome # None /\ Len(pre.events) >= 2) =>
        /\ \A p \in Paths :
              p # pre.events[Len(pre.events)] => files[p] = pre.files[p]
        /\ outcome = "saved" =>
              files[pre.events[Len(pre.events)]].docs # <<>>
        /\ events = <<>>

\* a pass has found requests for two paths and has written the later one only
CoalesceWitness ==
    /\ AfterSave
    /\ Len(pre.events) = 2
    /\ pre.events[1] # pre.events[2]
    /\ files[pre.events[2]].docs # <<>>
    /\ files[pre.events[1]] = NoFile

CountOf(cs, kind) == Cardinality({k \in DOMAIN cs : cs[k].kind = kind})

\* C9: after a successful save the names of the document's levels are the
\* names of the root's levels, and each level of the document holds as many
\* vertices, lanes, measurements, walls and models as the level has children
\* of that kind.
CountsStable ==
    AfterSave =>
        /\ {e.name : e \in Range(SavedMap.levels)} = {site.name[li] : li \in RootLevels}
        /\ Len(SavedMap.levels) = Len(site.root_children)
        /\ \A li \in RootLevels :
              LET cs == pre.children[li]
                  lv == SavedLevel(li)
              IN  /\ Len(lv.vertices) = CountOf(cs, "vertex")
                  /\ Len(lv.lanes) = CountOf(cs, "lane")
                  /\ Len(lv.measurements) = CountOf(cs, "measurement")
                  /\ Len(lv.walls) = CountOf(cs, "wall")
                  /\ Len(lv.models) = CountOf(cs, "model")
                  /\ Range(lv.vertices) \cup Range(lv.models)
                        \cup {d.ent : d \in Range(DepsOf(lv))}
                     = {cs[k].ent : k \in DOMAIN cs}

\* a save of two levels, one with a vertex and a dependent
CountsStableWitness ==
    /\ AfterSave
    /\ Len(SavedMap.levels) = 2
    /\ \E li \in RootLevels :
          /\ SavedLevel(li).vertices # <<>>
          /\ DepsOf(SavedLevel(li)) # <<>>

\* a save of a level with a wall and a model
CountsWallWitness ==
    /\ AfterSave
    /\ \E li \in RootLevels :
          SavedLevel(li).walls # <<>> /\ SavedLevel(li).models # <<>>

Reverse(q) == [i \in DOMAIN q |-> q[Len(q) + 1 - i]]

\* C10: the levels of the written document are in the order of their names,
\* and the same levels visited in the opposite order give the same levels.
LevelsSorted ==
    AfterSave =>
        /\ \A i, j \in DOMAIN SavedMap.levels :
              i < j => NameRank(SavedMap.levels[i].name)
                         < NameRank(SavedMap.levels[j].name)
        /\ LET other == SaveLevels(Reverse(site.root_children),
                            [levels |-> <<>>, vms |-> pre.vms,
                             children |-> pre.children, panic |-> None])
           IN  other.panic = None /\ other.levels = SavedMap.levels

\* a save of a root whose first child has the later name
LevelsSortedWitness ==
    /\ AfterSave
    /\ Len(site.root_children) = 2
    /\ NameRank(site.name[site.root_children[1]])
          > NameRank(site.name[site.root_children[2]])
    /\ Len(SavedMap.levels) = 2

\* the root lacks its CrowdSim or Name, or a level its LevelExtra or Name
MissingComponent ==
    \/ site.crowd_sim = None
    \/ site.root_name = None
    \/ \E li \in RootLevels : site.extra[li] = None \/ site.name[li] = None

\* the pass reached File::create
SinkInvoked == outcome \in {"saved", "panic_create", "panic_write"}

\* the live state of level li is the one its two loops leave behind: a dense
\* manager and every reference pair within it
LevelProcessed(li) ==
    LET n == Len(VertexSeq(children[li])) IN
    /\ DOMAIN vms[site.name[li]].id_to_entity = 0..(n - 1)
    /\ \A k \in DepChildren(children[li]) :
          children[li][k].a \in 0..(n - 1) /\ children[li][k].b \in 0..(n - 1)

\* C11: a pass changes at most one file, and none unless it reached the sink;
\* it reaches the sink only with no component missing and every level of the
\* root processed, and a successful pass writes every level (levels are told
\* apart by name, so these two are stated for distinct names); a pass over a
\* site with a missing component panics with the files untouched.
AllOrNothing ==
    AfterAttempt =>
        /\ Cardinality({p \in Paths : files[p] # pre.files[p]}) <= 1
        /\ files # pre.files => SinkInvoked
        /\ SinkInvoked => ~MissingComponent
        /\ SinkInvoked /\ ~DuplicateNames =>
              \A li \in RootLevels : LevelProcessed(li)
        /\ AfterSave /\ ~DuplicateNames =>
              Len(SavedMap.levels) = Len(site.root_children)
        /\ MissingComponent =>
              /\ outcome \in {"panic_component", "panic_vertex", "panic_ref"}
              /\ status = "panicked"
              /\ files = pre.files

\* a pass has panicked on the second level's missing component after it
\* processed the first level
AllOrNothingWitness ==
    /\ AfterAttempt
    /\ outcome = "panic_component"
    /\ Len(site.root_children) = 2
    /\ LET l2 == site.root_children[2] IN
          site.extra[l2] = None \/ site.name[l2] = None
    /\ vms # pre.vms
    /\ files = pre.files

\* a pass has panicked on the root's missing Name after it processed two levels
RootNameWitness ==
    /\ AfterAttempt
    /\ outcome = "panic_component"
    /\ site.root_name = None
    /\ vms # pre.vms
    /\ files = pre.files

\* C12: when File::create or serde_yaml::to_writer fails, the pass panics and
\* the target holds what it held before the pass or a complete document,
\* never an empty or truncated file.
NoPartialDocument ==
    outcome \in {"panic_create", "panic_write"} =>
        LET path == LastEvent(pre.events) IN
        /\ status = "panicked"
        /\ \/ files[path] = pre.files[path]
           \/ files[path].docs # <<>>

NotVertex(c) == c.kind # "vertex"

\* the children of a level with the vertices moved to the front
VerticesFirst(cs) == SelectSeq(cs, IsVertex) \o SelectSeq(cs, NotVertex)

\* position k of the level holds a dependent that comes before both of the
\* vertices it joins
DepPrecedes(cs, k) ==
    /\ k \in DepChildren(cs)
    /\ \E i, j \in DOMAIN cs :
          /\ i > k /\ j > k
          /\ cs[i].kind = "vertex" /\ cs[i].id = cs[k].a
          /\ cs[j].kind = "vertex" /\ cs[j].id = cs[k].b

\* C13: the references of a level are rewritten against the map of all its
\* vertices: a saved level equals what the two loops make of the same children
\* with the vertices moved to the front, a pass panics on a reference only if
\* some level holds a dangling one, and a pass that panics while collecting
\* vertices leaves a level with its vertices uncollected and its pairs as they
\* were.
TwoPassOrder ==
    /\ AfterSave =>
          \A li \in RootLevels :
              LET vf == VerticesFirst(pre.children[li])
                  cv == CollectVertices(vf, 1, pre.vms[site.name[li]], CollectStart)
                  rw == RewriteRefs(vf, 1, cv.vertices_reid, RewriteStart(vf))
                  lv == SavedLevel(li)
              IN  /\ cv.panic = None /\ rw.panic = None
                  /\ lv.vertices = cv.vertices
                  /\ lv.lanes = rw.lanes
                  /\ lv.measurements = rw.measurements
                  /\ lv.walls = rw.walls
    /\ AfterAttempt /\ outcome = "panic_ref" =>
          \E li \in RootLevels : Dangling(pre.children[li])
    /\ AfterAttempt /\ outcome = "panic_vertex" =>
          \E li \in RootLevels :
              /\ children[li] = pre.children[li]
              /\ vms[site.name[li]] = pre.vms[site.name[li]]

\* a save has rewritten a dependent that comes before the two different
\* vertices it joins
TwoPassOrderWitness ==
    /\ AfterSave
    /\ \E li \in RootLevels :
          \E k \in DOMAIN pre.children[li] :
             /\ DepPrecedes(pre.children[li], k)
             /\ pre.children[li][k].a # pre.children[li][k].b
             /\ children[li][k].a # children[li][k].b
             /\ children[li][k].a # pre.children[li][k].a

\* the entities that are children of the level li
LevelEntities(li) == {pre.children[li][k].ent : k \in DOMAIN pre.children[li]}

\* a dependent of level li holds an Id that no vertex of li carries and a
\* vertex of another level does
CrossLevelRef(li) ==
    \E k \in DepChildren(pre.children[li]) :
        \E x \in {pre.children[li][k].a, pre.children[li][k].b} :
            /\ x \notin VertexIds(pre.children[li])
            /\ \E lj \in RootLevels \ {li} : x \in VertexIds(pre.children[lj])

\* C14: every level is re-keyed against a map of its own: after a successful
\* save the two positions of every dependent of a level are positions of
\* vertices of that same level, whatever Ids the other levels use, and a pass
\* over a site a dependent of which refers to an Id carried only in another
\* level panics without writing.
PerLevelScope ==
    /\ AfterSave =>
          \A li \in RootLevels :
              LET lv == SavedLevel(li) IN
              /\ Range(lv.vertices) \subseteq LevelEntities(li)
              /\ \A d \in Range(DepsOf(lv)) :
                    /\ d.ent \in LevelEntities(li)
                    /\ d.a + 1 \in DOMAIN lv.vertices
                    /\ d.b + 1 \in DOMAIN lv.vertices
    /\ (AfterAttempt /\ \E li \in RootLevels : CrossLevelRef(li)) =>
          /\ outcome \in {"panic_ref", "panic_vertex", "panic_component"}
          /\ status = "panicked"
          /\ files = pre.files

\* a pass has panicked on a reference of the second level to an Id that only
\* a vertex of the first level carries
PerLevelScopeWitness ==
    /\ AfterAttempt
    /\ Len(site.root_children) = 2
    /\ CrossLevelRef(site.root_children[2])
    /\ ~Dangling(pre.children[site.root_children[1]])
    /\ outcome = "panic_ref"
    /\ files = pre.files

\* a save has re-keyed two levels that use the same Id, each with a dependent
SharedIdWitness ==
    /\ AfterSave
    /\ Len(site.root_children) = 2
    /\ LET l1 == site.root_children[1]
           l2 == site.root_children[2]
       IN  /\ VertexIds(pre.children[l1]) \cap VertexIds(pre.children[l2]) # {}
           /\ VertexIds(pre.children[l1]) # VertexIds(pre.children[l2])
           /\ DepsOf(SavedLevel(l1)) # <<>>
           /\ DepsOf(SavedLevel(l2)) # <<>>

\* C15: after a successful save the manager of every level holds exactly
\* 0..n-1, identifier k resolves to the vertex at position k of the persisted
\* list, every live lane, wall and measurement holds its persisted pair, and
\* that pair resolves through the manager to the two vertex entities it
\* resolved to before the save.
LiveReflectsSaved ==
    AfterSave =>
        \A li \in RootLevels :
            LET lv == SavedLevel(li)
                n == Len(lv.vertices)
                vm == vms[site.name[li]]
                old == pre.vms[site.name[li]]
            IN  /\ DOMAIN vm.id_to_entity = 0..(n - 1)
                /\ \A i \in 0..(n - 1) : LvmGet(vm, i) = lv.vertices[i + 1]
                /\ \A k \in DepChildren(children[li]) :
                      LET c == children[li][k]
                          was == pre.children[li][k]
                      IN  /\ \E d \in Range(DepsOf(lv)) :
                                d.ent = c.ent /\ d.a = c.a /\ d.b = c.b
                          /\ LvmHas(vm, c.a) /\ LvmHas(vm, c.b)
                          /\ LvmGet(vm, c.a) = LvmGet(old, was.a)
                          /\ LvmGet(vm, c.b) = LvmGet(old, was.b)

\* the names of the levels of the root
RootNames == {site.name[li] : li \in RootLevels}

\* C16: a pass of save leaves the roots, the parent/child relations and all
\* root and level metadata as they were; every level keeps its children, each
\* with its kind, its entity and its Id component, and every vertex and model
\* whole; only reference pairs of lanes, walls and measurements, managers of
\* levels of the root, the queue and the requested file may differ.
FrameKept ==
    outcome # None =>
        /\ nroots = pre.nroots
        /\ site = pre.site
        /\ \A li \in LevelIds :
              /\ Len(children[li]) = Len(pre.children[li])
              /\ li \notin RootLevels => children[li] = pre.children[li]
              /\ \A k \in DOMAIN children[li] :
                    LET c == children[li][k]
                        was == pre.children[li][k]
                    IN  /\ c.kind = was.kind /\ c.ent = was.ent /\ c.id = was.id
                        /\ c.kind \notin DepKinds => c = was
        /\ DOMAIN vms = DOMAIN pre.vms
        /\ \A n \in DOMAIN vms \ RootNames : vms[n] = pre.vms[n]
        /\ \A p \in Paths :
              files[p] # pre.files[p] =>
                  pre.events # <<>> /\ p = LastEvent(pre.events)

\* a save has rewritten a pair and replaced a manager in a site that holds a
\* model and a vertex whose Id is not its place among the vertices
FrameKeptWitness ==
    /\ AfterSave
    /\ children # pre.children
    /\ vms # pre.vms
    /\ \E li \in RootLevels : \E k \in DOMAIN children[li] :
          children[li][k].kind = "model"
    /\ \E li \in RootLevels :
          /\ Len(VertexSeq(children[li])) > 0
          /\ VertexSeq(children[li])[1].id # 0

\* C17: after every pass of save the queue is empty; a pass that found the
\* queue empty does nothing, and a pass changes a file only if the request was
\* in the queue when it started and it found one root: a request drained by a
\* pass that found no single root is never served by a later pass.
ConsumedEveryPass ==
    outcome # None =>
        /\ events = <<>>
        /\ pre.events = <<>> =>
              /\ outcome = "no_request"
              /\ files = pre.files /\ children = pre.children /\ vms = pre.vms
        /\ files # pre.files => pre.events # <<>> /\ pre.nroots = 1

\* a pass that found no root has emptied a queue that held a request
ConsumedWitness ==
    /\ outcome = "no_single_root"
    /\ pre.nroots = 0
    /\ Len(pre.events) = 1
    /\ events = <<>>
    /\ files = [p \in Paths |-> NoFile]

\* a pass over a single root and an empty queue, with no file written so far
NotServedLaterWitness ==
    /\ outcome = "no_request"
    /\ nroots = 1
    /\ events = <<>>
    /\ files = [p \in Paths |-> NoFile]

\* a pass that found several roots has emptied the queue
SeveralRootsWitness ==
    /\ outcome = "no_single_root"
    /\ pre.nroots > 1
    /\ pre.events # <<>>
    /\ events = <<>>

\* before the pass the k-th vertex of the level carried the Id k, counting
\* from 0, and every reference of the level was to one of these Ids
DenseBefore(li) ==
    LET vs == VertexSeq(pre.children[li]) IN
    /\ \A i \in DOMAIN vs : vs[i].id = i - 1
    /\ ~Dangling(pre.children[li])

\* C18: a pass over a site all levels of which are dense in child order, with
\* every reference valid, leaves every live pair and every manager's
\* identifier-to-entity table as they were, and the pairs of a document it
\* writes are the live pairs from before the pass.
DenseFixedPoint ==
    (AfterAttempt /\ \A li \in RootLevels : DenseBefore(li)) =>
        /\ children = pre.children
        /\ \A n \in DOMAIN vms : vms[n].id_to_entity = pre.vms[n].id_to_entity
        /\ AfterSave =>
              \A li \in RootLevels :
                  LET ds == DepsOf(SavedLevel(li)) IN
                  /\ Len(ds) = Cardinality(DepChildren(pre.children[li]))
                  /\ \A k \in DepChildren(pre.children[li]) :
                        \E d \in Range(ds) :
                            /\ d.ent = pre.children[li][k].ent
                            /\ d.a = pre.children[li][k].a
                            /\ d.b = pre.children[li][k].b

\* a save of a dense site one level of which has two vertices and a dependent
\* that joins them
DenseFixedPointWitness ==
    /\ AfterSave
    /\ \A li \in RootLevels : DenseBefore(li)
    /\ \E li \in RootLevels :
          /\ Len(VertexSeq(pre.children[li])) >= 2
          /\ \E k \in DepChildren(pre.children[li]) :
                pre.children[li][k].a # pre.children[li][k].b
          /\ DepsOf(SavedLevel(li)) # <<>>

====
